---- MODULE Spec2Model ----
(***************************************************************************)
(* Model of src/lib/plugins/addSortBy.ts (svelte-headless-table):          *)
(*   - createSortKeysStore: the sort-key sequence and its toggleId /       *)
(*     clearId transitions (Spec);                                         *)
(*   - getSortedRows: the recursive multi-key sort of a forest of rows     *)
(*     (SortSpec, and TypedSpec for values that are not compared);         *)
(*   - addSortBy: the header hook's toggle and clear (HookSpec), the       *)
(*     store operations, the derived rows and the props (PluginSpec).      *)
(* Sequences are 1-based here; a findIndex result of -1 is modelled as 0.  *)
(***************************************************************************)
EXTENDS Integers, Sequences, FiniteSets, TLC

VARIABLES
    sortKeys,       \* value held by the writable store of createSortKeysStore
    lastOp,         \* history: the last store operation [op, id, multiSort]
    prevKeys,       \* history: value of the store before the last toggle or clear
    cycN,           \* history: consecutive toggles of cycId in mode cycMulti, begun when cycId was absent
    cycId,
    cycMulti,
    cycBase,        \* history: value of the store before the first toggle of the run
    rows,           \* getSortedRows argument `rows`, as it is when the call is made
    columnOptions,  \* getSortedRows argument `columnOptions`
    result,         \* outcome of the getSortedRows call: what it returned or
                    \* raised, and `input`, the argument array as the call left it
    disableMultiSort,   \* addSortBy config
    props,          \* value of the props stores of the header and body cell hooks
    preSortedRows,  \* value of pluginState.preSortedRows
    derivedRows,    \* value published by the store deriveRows returned
    toggled         \* history: a header toggle has reached sortKeys.toggleId

vars == <<sortKeys, lastOp, prevKeys, cycN, cycId, cycMulti, cycBase, rows, columnOptions, result,
          disableMultiSort, props, preSortedRows, derivedRows, toggled>>

storeHist == <<lastOp, prevKeys, cycN, cycId, cycMulti, cycBase>>
sortVars == <<rows, columnOptions, result>>
pluginVars == <<disableMultiSort, props, preSortedRows, derivedRows, toggled>>

(***************************************************************************)
(* Bounds                                                                  *)
(***************************************************************************)
MaxRows == 3    \* rows of the top level
MaxSub == 2     \* rows of a subRows level
MaxNodes == 4   \* rows of a forest, all levels together
MaxVal == 2     \* cell values are 1..MaxVal
MaxKeys == 2    \* length of the key sequence handed to getSortedRows
MaxCustomColumns == 1   \* columns given options other than the defaults

(***************************************************************************)
(* Columns.  "a" and "b" are data columns, "d" is a display column (its    *)
(* cells are not DataBodyCell), "z" is an id no row has a cell for.        *)
(***************************************************************************)
DataColumnIds == {"a", "b"}
DisplayColumnIds == {"d"}
ColumnIds == DataColumnIds \cup DisplayColumnIds
Ids == ColumnIds \cup {"z"}
Orders == {"asc", "desc"}

SortKey == [id : Ids, order : Orders]

SeqsUpTo(S, n) == UNION {[1..k -> S] : k \in 0..n}

UniqueIds(keys) == \A i, j \in 1..Len(keys) : keys[i].id = keys[j].id => i = j

\* Key sequences with pairwise distinct ids, of length at most n.
UniqueKeySeqs(n) == {s \in SeqsUpTo(SortKey, n) : UniqueIds(s)}

(***************************************************************************)
(* createSortKeysStore                                                     *)
(***************************************************************************)
\* $sortKeys.findIndex((key) => key.id === id); 0 stands for -1.
FindIndex(keys, id) ==
    IF \E i \in 1..Len(keys) : keys[i].id = id
    THEN CHOOSE i \in 1..Len(keys) :
            /\ keys[i].id = id
            /\ \A j \in 1..(i - 1) : keys[j].id # id
    ELSE 0

\* [...keys.slice(0, keyIdx), ...keys.slice(keyIdx + 1)]
RemoveAt(keys, keyIdx) == SubSeq(keys, 1, keyIdx - 1) \o SubSeq(keys, keyIdx + 1, Len(keys))

\* [...keys.slice(0, keyIdx), key, ...keys.slice(keyIdx + 1)]
ReplaceAt(keys, keyIdx, key) ==
    SubSeq(keys, 1, keyIdx - 1) \o <<key>> \o SubSeq(keys, keyIdx + 1, Len(keys))

\* Mutant of ToggleSingle: the keys of the other columns are kept.
ToggleSingle_KeepOthers(keys, id) ==
    LET keyIdx == FindIndex(keys, id) IN
    IF keyIdx = 0 THEN Append(keys, [id |-> id, order |-> "asc"])
    ELSE IF keys[keyIdx].order = "asc"
         THEN ReplaceAt(keys, keyIdx, [id |-> id, order |-> "desc"])
    ELSE RemoveAt(keys, keyIdx)

\* The updater of toggleId, multiSort === false branch.
ToggleSingle(keys, id) ==
    LET keyIdx == FindIndex(keys, id) IN
    IF keyIdx = 0 THEN <<[id |-> id, order |-> "asc"]>>
    ELSE IF keys[keyIdx].order = "asc" THEN <<[id |-> id, order |-> "desc"]>>
    ELSE <<>>

\* Mutant of ToggleMulti: the key is appended without looking for the id.
ToggleMulti_AlwaysAppend(keys, id) == Append(keys, [id |-> id, order |-> "asc"])

\* Mutant of ToggleMulti: a flipped key moves to the end of the sequence.
ToggleMulti_FlipToEnd(keys, id) ==
    LET keyIdx == FindIndex(keys, id) IN
    IF keyIdx = 0 THEN Append(keys, [id |-> id, order |-> "asc"])
    ELSE IF keys[keyIdx].order = "asc"
         THEN Append(RemoveAt(keys, keyIdx), [id |-> id, order |-> "desc"])
    ELSE RemoveAt(keys, keyIdx)

\* Mutant of ToggleMulti: a desc key flips back to asc and is never removed.
ToggleMulti_NoRemove(keys, id) ==
    LET keyIdx == FindIndex(keys, id) IN
    IF keyIdx = 0 THEN Append(keys, [id |-> id, order |-> "asc"])
    ELSE IF keys[keyIdx].order = "asc"
         THEN ReplaceAt(keys, keyIdx, [id |-> id, order |-> "desc"])
    ELSE ReplaceAt(keys, keyIdx, [id |-> id, order |-> "asc"])

\* The updater of toggleId, multiSort === true branch.
ToggleMulti(keys, id) ==
    LET keyIdx == FindIndex(keys, id) IN
    IF keyIdx = 0 THEN Append(keys, [id |-> id, order |-> "asc"])
    ELSE IF keys[keyIdx].order = "asc"
         THEN ReplaceAt(keys, keyIdx, [id |-> id, order |-> "desc"])
    ELSE RemoveAt(keys, keyIdx)

\* Mutant of ToggleUpdater: the key of a disabled column is left alone.
ToggleUpdater_RespectsDisable(keys, id, multiSort) ==
    IF id \in DOMAIN columnOptions /\ columnOptions[id].disable THEN keys
    ELSE IF ~multiSort THEN ToggleSingle(keys, id) ELSE ToggleMulti(keys, id)

\* The updater of toggleId.
ToggleUpdater(keys, id, multiSort) ==
    IF ~multiSort THEN ToggleSingle(keys, id) ELSE ToggleMulti(keys, id)

\* Mutant of ClearUpdater: the keys after the removed one are lost.
ClearUpdater_Truncate(keys, id) ==
    LET keyIdx == FindIndex(keys, id) IN
    IF keyIdx = 0 THEN keys ELSE SubSeq(keys, 1, keyIdx - 1)

\* The updater of clearId.
ClearUpdater(keys, id) ==
    LET keyIdx == FindIndex(keys, id) IN
    IF keyIdx = 0 THEN keys ELSE RemoveAt(keys, keyIdx)

NoOp == [op |-> "none", id |-> "none", multiSort |-> FALSE]

\* sortKeys.toggleId(id, {multiSort})
toggleId(id, multiSort) ==
    /\ sortKeys' = ToggleUpdater(sortKeys, id, multiSort)
    /\ lastOp' = [op |-> "toggleId", id |-> id, multiSort |-> multiSort]
    /\ prevKeys' = sortKeys
    /\ IF cycN \in 1..2 /\ cycId = id /\ cycMulti = multiSort
       THEN /\ cycN' = cycN + 1
            /\ UNCHANGED <<cycId, cycMulti, cycBase>>
       ELSE IF FindIndex(sortKeys, id) = 0
       THEN /\ cycN' = 1
            /\ cycId' = id
            /\ cycMulti' = multiSort
            /\ cycBase' = sortKeys
       ELSE /\ cycN' = 0
            /\ cycId' = "none"
            /\ cycMulti' = FALSE
            /\ cycBase' = <<>>
    /\ UNCHANGED <<sortVars, pluginVars>>

\* sortKeys.clearId(id)
clearId(id) ==
    /\ sortKeys' = ClearUpdater(sortKeys, id)
    /\ lastOp' = [op |-> "clearId", id |-> id, multiSort |-> FALSE]
    /\ prevKeys' = sortKeys
    /\ cycN' = 0
    /\ cycId' = "none"
    /\ cycMulti' = FALSE
    /\ cycBase' = <<>>
    /\ UNCHANGED <<sortVars, pluginVars>>

NotCalled == [called |-> FALSE, threw |-> FALSE, rows |-> <<>>, input |-> <<>>]

NoColumnOptions == [c \in {} |-> 0]

HistInit ==
    /\ lastOp = NoOp
    /\ prevKeys = <<>>
    /\ cycN = 0
    /\ cycId = "none"
    /\ cycMulti = FALSE
    /\ cycBase = <<>>

NoProps == [th |-> <<>>, td |-> <<>>]

\* The store taken on its own: no plugin is built around it.
NoPlugin ==
    /\ disableMultiSort = FALSE
    /\ props = NoProps
    /\ preSortedRows = <<>>
    /\ derivedRows = <<>>
    /\ toggled = FALSE

\* createSortKeysStore(initialSortKeys), initialSortKeys with distinct ids.
Init ==
    /\ sortKeys \in UniqueKeySeqs(Cardinality(Ids))
    /\ HistInit
    /\ rows = <<>>
    /\ columnOptions = NoColumnOptions
    /\ result = NotCalled
    /\ NoPlugin

Toggle == \E id \in Ids : \E multiSort \in BOOLEAN : toggleId(id, multiSort)

Clear == \E id \in Ids : clearId(id)

Next == Toggle \/ Clear

Spec == Init /\ [][Next]_vars

(***************************************************************************)
(* Rows, cells and column options                                          *)
(***************************************************************************)
Vals == 1..MaxVal

\* A DataBodyCell of column c holding the number v.
DataCell(c, v) == [id |-> c, kind |-> "data", type |-> "number", value |-> v]

\* A cell of column c that is not a DataBodyCell (it has no value).
DisplayCell(c) == [id |-> c, kind |-> "display", type |-> "undefined", value |-> 0]

\* row.cellForId: one cell per column, a DataBodyCell for a data column.
CellMaps ==
    {[c \in ColumnIds |-> IF c \in DataColumnIds THEN DataCell(c, v[c]) ELSE DisplayCell(c)] :
        v \in [DataColumnIds -> Vals]}

\* A row without subRows (subRows === undefined).
LeafRow(id, cells) ==
    [id |-> id, cellForId |-> cells, hasSubRows |-> FALSE, subRows |-> <<>>]

\* A row whose subRows is the sequence subs.
ParentRow(id, cells, subs) ==
    [id |-> id, cellForId |-> cells, hasSubRows |-> TRUE, subRows |-> subs]

\* Shapes of a top-level row: its cells and, with subRows, the cells of each
\* sub-row (1..MaxSub of them).
RowShapes ==
    [cells : CellMaps, hasSubRows : {FALSE}, subs : {<<>>}]
        \cup [cells : CellMaps, hasSubRows : {TRUE},
              subs : SeqsUpTo(CellMaps, MaxSub) \ {<<>>}]

ShapeSize(r) == 1 + Len(r.subs)

ShapeNodes(f) ==
    LET RECURSIVE Sum(_)
        Sum(i) == IF i = 0 THEN 0 ELSE ShapeSize(f[i]) + Sum(i - 1)
    IN Sum(Len(f))

\* Sequences of n shapes holding at most budget rows, all levels together.
ShapeSeqs(n, budget) ==
    {f \in [1..n -> {q \in RowShapes : ShapeSize(q) + (n - 1) <= budget}] :
        ShapeNodes(f) <= budget}

\* The forest of a sequence of shapes; a row's id is its path from the root.
MkForest(f) ==
    [i \in 1..Len(f) |->
        IF f[i].hasSubRows
        THEN ParentRow(<<i>>, f[i].cells,
                       [j \in 1..Len(f[i].subs) |-> LeafRow(<<i, j>>, f[i].subs[j])])
        ELSE LeafRow(<<i>>, f[i].cells)]

\* getSortValue samples: none configured, or a projection reversing the order.
SortValueFns == {"undefined", "negate"}

ApplyGetSortValue(fn, v) == IF fn = "negate" THEN 0 - v ELSE v

DefaultOptions == [disable |-> FALSE, invert |-> FALSE, getSortValue |-> "undefined"]

\* The options a column can be given; only column "a" is given a getSortValue.
OptionsOf(c) ==
    [disable : {FALSE},
     invert : IF c \in DataColumnIds THEN BOOLEAN ELSE {FALSE},
     getSortValue : IF c = "a" THEN SortValueFns ELSE {"undefined"}]

\* Record<string, SortByColumnOptions> over the table's columns, at most
\* MaxCustomColumns of them with options other than the defaults.
ColumnOptionSets ==
    {o \in [ColumnIds -> UNION {OptionsOf(c) : c \in ColumnIds}] :
        /\ \A c \in ColumnIds : o[c] \in OptionsOf(c)
        /\ Cardinality({c \in ColumnIds : o[c] # DefaultOptions}) <= MaxCustomColumns}

(***************************************************************************)
(* getSortedRows                                                           *)
(***************************************************************************)
\* compare of $lib/utils/compare on two numbers.
Compare(a, b) == a - b

Threw == [threw |-> TRUE, order |-> 0]

Order(n) == [threw |-> FALSE, order |-> n]

\* Mutant of OrderFactor: the invert option is ignored.
OrderFactor_NoInvert(key, invert) == IF key.order = "desc" THEN -1 ELSE 1

\* Mutant of OrderFactor: the invert option reverses asc keys only.
OrderFactor_InvertAscOnly(key, invert) ==
    IF key.order = "desc" THEN -1 ELSE IF invert THEN -1 ELSE 1

\* orderFactor: -1 for a desc key, times -1 when the column is inverted.
OrderFactor(key, invert) ==
    (IF key.order = "desc" THEN -1 ELSE 1) * (IF invert THEN -1 ELSE 1)

\* Mutant of ValueOrder: values are compared whatever their type.
ValueOrder_NoTypeCheck(cellA, valueA, valueB, getSortValue) ==
    IF getSortValue # "undefined"
    THEN Compare(ApplyGetSortValue(getSortValue, valueA),
                 ApplyGetSortValue(getSortValue, valueB))
    ELSE Compare(valueA, valueB)

\* order of the two values of a key's data cells: by getSortValue when the
\* column has one, directly for a string or a number, 0 otherwise.
ValueOrder(cellA, valueA, valueB, getSortValue) ==
    IF getSortValue # "undefined"
    THEN Compare(ApplyGetSortValue(getSortValue, valueA),
                 ApplyGetSortValue(getSortValue, valueB))
    ELSE IF cellA.type \in {"string", "number"}
    THEN Compare(valueA, valueB)
    ELSE 0

\* The comparator handed to _sortedRows.sort: the loop over sortKeys, from
\* the k-th key on.  A property read on undefined raises a TypeError.
RECURSIVE CompareFrom(_, _, _, _, _)
CompareFrom(a, b, keys, options, k) ==
    IF k > Len(keys) THEN Order(0)
    ELSE
    LET key == keys[k]
        invert == IF key.id \in DOMAIN options THEN options[key.id].invert ELSE FALSE
    IN
    IF key.id \notin DOMAIN a.cellForId THEN Threw
    ELSE
    LET cellA == a.cellForId[key.id]
        getSortValue == IF cellA.id \in DOMAIN options
                        THEN options[cellA.id].getSortValue
                        ELSE "undefined"
    IN
    IF cellA.kind # "data" THEN Order(0)
    ELSE IF key.id \notin DOMAIN b.cellForId THEN Threw
    ELSE
    LET order == ValueOrder(cellA, cellA.value, b.cellForId[key.id].value, getSortValue) IN
    IF order # 0 THEN Order(order * OrderFactor(key, invert))
    ELSE CompareFrom(a, b, keys, options, k + 1)

SortCompare(a, b, keys, options) == CompareFrom(a, b, keys, options, 1)

Raised == [threw |-> TRUE, rows |-> <<>>]

Returned(s) == [threw |-> FALSE, rows |-> s]

\* Mutant of Insert: x also moves left of the rows it ties with.
RECURSIVE Insert_Unstable(_, _, _, _, _)
Insert_Unstable(s, x, j, keys, options) ==
    IF j = 0 THEN Returned(<<x>> \o s)
    ELSE
    LET c == SortCompare(x, s[j], keys, options) IN
    IF c.threw THEN Raised
    ELSE IF c.order <= 0 THEN Insert_Unstable(s, x, j - 1, keys, options)
    ELSE Returned(SubSeq(s, 1, j) \o <<x>> \o SubSeq(s, j + 1, Len(s)))

\* Array.prototype.sort, one insertion: x goes into the sorted run s, moving
\* left of s[j] while comparefn(x, s[j]) < 0 (a stable insertion sort; an
\* exception of comparefn ends the sort).
RECURSIVE Insert(_, _, _, _, _)
Insert(s, x, j, keys, options) ==
    IF j = 0 THEN Returned(<<x>> \o s)
    ELSE
    LET c == SortCompare(x, s[j], keys, options) IN
    IF c.threw THEN Raised
    ELSE IF c.order < 0 THEN Insert(s, x, j - 1, keys, options)
    ELSE Returned(SubSeq(s, 1, j) \o <<x>> \o SubSeq(s, j + 1, Len(s)))

\* Array.prototype.sort with the comparator above, on a copy of s.
RECURSIVE SortPrefix(_, _, _, _)
SortPrefix(s, n, keys, options) ==
    IF n = 0 THEN Returned(<<>>)
    ELSE
    LET done == SortPrefix(s, n - 1, keys, options) IN
    IF done.threw THEN Raised
    ELSE Insert(done.rows, s[n], n - 1, keys, options)

ArraySort(s, keys, options) == SortPrefix(s, Len(s), keys, options)

\* getCloned(row, {subRows: sortedSubRows})
GetCloned(row, sortedSubRows) == [row EXCEPT !.subRows = sortedSubRows]

\* Mutant of getSortedRows: the level is sorted, the subRows are left as they are.
getSortedRows_NoSubRows(rs, keys, options) == ArraySort(rs, keys, options)

RECURSIVE getSortedRows(_, _, _)
getSortedRows(rs, keys, options) ==
    LET sorted == ArraySort(rs, keys, options) IN
    IF sorted.threw THEN Raised
    ELSE
    LET _sortedRows == sorted.rows
        sub == [i \in 1..Len(_sortedRows) |->
                   IF _sortedRows[i].hasSubRows
                   THEN getSortedRows(_sortedRows[i].subRows, keys, options)
                   ELSE Returned(<<>>)]
    IN
    IF \E i \in 1..Len(_sortedRows) : sub[i].threw THEN Raised
    ELSE Returned([i \in 1..Len(_sortedRows) |->
                      IF _sortedRows[i].hasSubRows
                      THEN GetCloned(_sortedRows[i], sub[i].rows)
                      ELSE _sortedRows[i]])

\* Mutant of RowsAfterSort: the sort works on the argument array itself.
RowsAfterSort_InPlace(rs, sortedRows) == sortedRows

\* The argument array after `const _sortedRows = [...rows]; _sortedRows.sort(..)`:
\* the sort reorders the copy, the argument keeps its order.
RowsAfterSort(rs, sortedRows) == rs

\* The argument forest as a call of getSortedRows leaves it: the array after
\* the sort of its copy, each row's subRows as the recursive call on them
\* leaves them (the sorted subRows go into a clone of the row).
RECURSIVE InputAfter(_, _, _)
InputAfter(rs, keys, options) ==
    LET sorted == ArraySort(rs, keys, options)
        held == RowsAfterSort(rs, sorted.rows)
    IN
    IF sorted.threw THEN held
    ELSE [i \in 1..Len(held) |->
             IF held[i].hasSubRows
             THEN [held[i] EXCEPT !.subRows = InputAfter(held[i].subRows, keys, options)]
             ELSE held[i]]

\* One call getSortedRows(rows, sortKeys, columnOptions).
Sort ==
    /\ ~result.called
    /\ \E n \in 0..MaxRows : \E f \in ShapeSeqs(n, MaxNodes) :
        /\ rows' = MkForest(f)
        /\ result' = [called |-> TRUE]
                        @@ getSortedRows(MkForest(f), sortKeys, columnOptions)
                        @@ [input |-> InputAfter(MkForest(f), sortKeys, columnOptions)]
    /\ UNCHANGED <<sortKeys, columnOptions, storeHist, pluginVars>>

SortInit ==
    /\ sortKeys \in UniqueKeySeqs(MaxKeys)
    /\ HistInit
    /\ rows = <<>>
    /\ columnOptions \in ColumnOptionSets
    /\ result = NotCalled
    /\ NoPlugin

SortNext == Sort

SortSpec == SortInit /\ [][SortNext]_vars

(***************************************************************************)
(* getSortedRows on rows with a data column "o" whose values are neither   *)
(* strings nor numbers: the array [v], written v here.                     *)
(***************************************************************************)
ObjectColumnIds == {"o"}

\* A DataBodyCell of column c holding the array [v].
ObjectCell(c, v) == [id |-> c, kind |-> "data", type |-> "object", value |-> v]

\* row.cellForId of a table with the columns a, b, d and o.
TypedCellMaps ==
    {[c \in ColumnIds \cup ObjectColumnIds |->
         IF c \in ObjectColumnIds THEN ObjectCell(c, v) ELSE cells[c]] :
        cells \in CellMaps, v \in Vals}

\* Leaf rows only.
TypedShapes == [cells : TypedCellMaps, hasSubRows : {FALSE}, subs : {<<>>}]

\* Keys of the data columns, with distinct ids.
TypedKeySeqs ==
    {s \in SeqsUpTo([id : DataColumnIds \cup ObjectColumnIds, order : Orders], MaxKeys) :
        UniqueIds(s)}

\* No options, or a getSortValue or invert for column "o".
TypedOptionSets ==
    {[c \in ColumnIds \cup ObjectColumnIds |->
         IF c \in ObjectColumnIds THEN o ELSE DefaultOptions] :
        o \in [disable : {FALSE}, invert : BOOLEAN, getSortValue : SortValueFns]}

\* One call getSortedRows(rows, sortKeys, columnOptions) on such rows.
SortTyped ==
    /\ ~result.called
    /\ \E n \in 0..MaxRows : \E f \in [1..n -> TypedShapes] :
        /\ rows' = MkForest(f)
        /\ result' = [called |-> TRUE]
                        @@ getSortedRows(MkForest(f), sortKeys, columnOptions)
                        @@ [input |-> InputAfter(MkForest(f), sortKeys, columnOptions)]
    /\ UNCHANGED <<sortKeys, columnOptions, storeHist, pluginVars>>

TypedInit ==
    /\ sortKeys \in TypedKeySeqs
    /\ HistInit
    /\ rows = <<>>
    /\ columnOptions \in TypedOptionSets
    /\ result = NotCalled
    /\ NoPlugin

TypedNext == SortTyped

TypedSpec == TypedInit /\ [][TypedNext]_vars

(***************************************************************************)
(* addSortBy: the plugin state, the derived rows and the cell hooks.       *)
(* The stores derived from sortKeys and from the rows are observed for the *)
(* plugin's lifetime, so each change of a store runs their callbacks.      *)
(***************************************************************************)
PluginMaxRows == 2  \* rows held by the table's rows store

\* A click event, and isMultiSortEvent (isShiftClick unless configured).
Events == [shiftKey : BOOLEAN]

IsMultiSortEvent(event) == event.shiftKey

\* The header cell of a column; cell.isData holds for a data column's.
HeaderCellOf(c) == [id |-> c, isData |-> c \in DataColumnIds]

HeaderCells == {HeaderCellOf(c) : c \in ColumnIds}

\* Column options with a set of data columns disabled.
DisableOptionSets ==
    {[c \in ColumnIds |-> [DefaultOptions EXCEPT !.disable = (c \in D)]] :
        D \in SUBSET DataColumnIds}

\* The ids of the columns whose option disable is true.
disabledSortIds == {c \in DOMAIN columnOptions : columnOptions[c].disable = TRUE}

\* $sortKeys.find((k) => k.id === cell.id)?.order
OrderProp(keys, id) ==
    LET keyIdx == FindIndex(keys, id) IN
    IF keyIdx = 0 THEN "undefined" ELSE keys[keyIdx].order

\* The props of the 'thead.tr.th' hook, without the two callbacks.
ThProps(keys, cell) ==
    [order |-> OrderProp(keys, cell.id), disabled |-> cell.id \in disabledSortIds]

\* The props of the 'tbody.tr.td' hook.
TdProps(keys, id) == [order |-> OrderProp(keys, id)]

\* The props stores of every header cell and of the body cells of every column.
PropsOf(keys) ==
    [th |-> [c \in ColumnIds |-> ThProps(keys, HeaderCellOf(c))],
     td |-> [c \in ColumnIds |-> TdProps(keys, c)]]

\* Mutant of MultiSortOf: the event alone selects the mode.
MultiSortOf_EventOnly(event) == IsMultiSortEvent(event)

\* multiSort: disableMultiSort ? false : isMultiSortEvent(event)
MultiSortOf(event) == IF disableMultiSort THEN FALSE ELSE IsMultiSortEvent(event)

\* Whether toggle(event) of the header cell reaches sortKeys.toggleId.
TogglePasses(cell) == cell.isData /\ cell.id \notin disabledSortIds

\* The store value after toggle(event) of the header cell's props.
HeaderToggleKeys(keys, cell, event) ==
    IF ~cell.isData THEN keys
    ELSE IF cell.id \in disabledSortIds THEN keys
    ELSE ToggleUpdater(keys, cell.id, MultiSortOf(event))

\* Mutant of HeaderClearKeys: clear does not look at the disabled columns.
HeaderClearKeys_NoDisableCheck(keys, cell) ==
    IF ~cell.isData THEN keys
    ELSE ClearUpdater(keys, cell.id)

\* The store value after clear() of the header cell's props.
HeaderClearKeys(keys, cell) ==
    IF ~cell.isData THEN keys
    ELSE IF cell.id \in disabledSortIds THEN keys
    ELSE ClearUpdater(keys, cell.id)

\* The value of the derived rows store after a run of its callback: the
\* value returned, or the value it held when the callback raised.
DerivedValue(published, outcome) == IF outcome.threw THEN published ELSE outcome.rows

\* The callbacks of the stores derived from sortKeys and the rows, run with
\* the new values $sortKeys and $rows: preSortedRows.set($rows) and
\* getSortedRows($rows, $sortKeys, columnOptions) for the derived rows, and
\* the props of the hooks.  When getSortedRows raises, the exception leaves
\* the store's notification: the props callbacks have run before it or have
\* not run at all.
Propagate(keys, rs) ==
    LET outcome == getSortedRows(rs, keys, columnOptions) IN
    /\ preSortedRows' = rs
    /\ result' = [called |-> TRUE] @@ outcome
                    @@ [input |-> InputAfter(rs, keys, columnOptions)]
    /\ derivedRows' = DerivedValue(derivedRows, outcome)
    /\ IF outcome.threw
       THEN props' \in {PropsOf(keys), props}
       ELSE props' = PropsOf(keys)

NoCycle == UNCHANGED <<cycN, cycId, cycMulti, cycBase>>

\* toggle(event) of the props of a header cell.
HeaderToggle(cell, event) ==
    /\ sortKeys' = HeaderToggleKeys(sortKeys, cell, event)
    /\ lastOp' = [op |-> "toggle", id |-> cell.id, multiSort |-> IsMultiSortEvent(event)]
    /\ prevKeys' = sortKeys
    /\ toggled' = (toggled \/ TogglePasses(cell))
    /\ IF TogglePasses(cell)
       THEN Propagate(sortKeys', rows)
       ELSE UNCHANGED <<props, preSortedRows, result, derivedRows>>
    /\ NoCycle
    /\ UNCHANGED <<rows, columnOptions, disableMultiSort>>

\* clear() of the props of a header cell.
HeaderClear(cell) ==
    /\ sortKeys' = HeaderClearKeys(sortKeys, cell)
    /\ lastOp' = [op |-> "clear", id |-> cell.id, multiSort |-> FALSE]
    /\ prevKeys' = sortKeys
    /\ IF TogglePasses(cell)
       THEN Propagate(sortKeys', rows)
       ELSE UNCHANGED <<props, preSortedRows, result, derivedRows>>
    /\ NoCycle
    /\ UNCHANGED <<rows, columnOptions, disableMultiSort, toggled>>

\* addSortBy({initialSortKeys, disableMultiSort}) with its stores observed
\* and no rows yet.
PluginStart ==
    /\ lastOp = NoOp
    /\ prevKeys = <<>>
    /\ cycN = 0
    /\ cycId = "none"
    /\ cycMulti = FALSE
    /\ cycBase = <<>>
    /\ rows = <<>>
    /\ props = PropsOf(sortKeys)
    /\ preSortedRows = <<>>
    /\ result = [called |-> TRUE] @@ Returned(<<>>) @@ [input |-> <<>>]
    /\ derivedRows = <<>>
    /\ toggled = FALSE

HookInit ==
    /\ sortKeys \in UniqueKeySeqs(MaxKeys)
    /\ disableMultiSort \in BOOLEAN
    /\ columnOptions \in DisableOptionSets
    /\ PluginStart

HookToggle == \E cell \in HeaderCells : \E event \in Events : HeaderToggle(cell, event)

HookClear == \E cell \in HeaderCells : HeaderClear(cell)

HookNext == HookToggle \/ HookClear

HookSpec == HookInit /\ [][HookNext]_vars

\* The operations below are followed until a callback raises: what the
\* stores do after an exception has left a notification is not in this
\* source.  prevKeys is kept for toggleId and clearId only, the toggle-run
\* history is not kept.
Running == ~result.threw

\* pluginState.sortKeys.toggleId(id, {multiSort}) with the stores observed.
PluginToggleId(id, multiSort) ==
    /\ Running
    /\ Len(ToggleUpdater(sortKeys, id, multiSort)) <= MaxKeys
    /\ sortKeys' = ToggleUpdater(sortKeys, id, multiSort)
    /\ lastOp' = [op |-> "toggleId", id |-> id, multiSort |-> multiSort]
    /\ prevKeys' = sortKeys
    /\ Propagate(sortKeys', rows)
    /\ NoCycle
    /\ UNCHANGED <<rows, columnOptions, disableMultiSort, toggled>>

\* pluginState.sortKeys.clearId(id) with the stores observed.
PluginClearId(id) ==
    /\ Running
    /\ sortKeys' = ClearUpdater(sortKeys, id)
    /\ lastOp' = [op |-> "clearId", id |-> id, multiSort |-> FALSE]
    /\ prevKeys' = sortKeys
    /\ Propagate(sortKeys', rows)
    /\ NoCycle
    /\ UNCHANGED <<rows, columnOptions, disableMultiSort, toggled>>

\* pluginState.sortKeys.set(keys), or update with a function returning keys.
PluginSet(keys) ==
    /\ Running
    /\ sortKeys' = keys
    /\ lastOp' = [op |-> "set", id |-> "none", multiSort |-> FALSE]
    /\ prevKeys' = <<>>
    /\ Propagate(sortKeys', rows)
    /\ NoCycle
    /\ UNCHANGED <<rows, columnOptions, disableMultiSort, toggled>>

\* The rows store handed to deriveRows takes a new value.
PluginRows(rs) ==
    /\ Running
    /\ rows' = rs
    /\ lastOp' = [op |-> "rows", id |-> "none", multiSort |-> FALSE]
    /\ prevKeys' = <<>>
    /\ Propagate(sortKeys, rows')
    /\ NoCycle
    /\ UNCHANGED <<sortKeys, columnOptions, disableMultiSort, toggled>>

\* The sequences handed to initialSortKeys and to set: up to MaxKeys keys of
\* the column "a" and of the unknown id "z", ids repeated or not.
InstalledKeySeqs == SeqsUpTo([id : {"a", "z"}, order : Orders], MaxKeys)

\* addSortBy({initialSortKeys}); column "a" is disabled or not.
PluginInit ==
    /\ sortKeys \in InstalledKeySeqs
    /\ disableMultiSort = FALSE
    /\ columnOptions \in {o \in DisableOptionSets : ~o["b"].disable}
    /\ PluginStart

StoreToggle == \E id \in Ids : \E multiSort \in BOOLEAN : PluginToggleId(id, multiSort)

StoreClear == \E id \in Ids : PluginClearId(id)

StoreSet == \E keys \in InstalledKeySeqs : PluginSet(keys)

RowsSet == \E n \in 0..PluginMaxRows : \E f \in ShapeSeqs(n, n) : PluginRows(MkForest(f))

PluginNext == StoreToggle \/ StoreClear \/ StoreSet \/ RowsSet

PluginSpec == PluginInit /\ [][PluginNext]_vars

(***************************************************************************)
(* Properties of the sort-key store (specification Spec)                   *)
(***************************************************************************)
HasId(keys, id) == \E i \in 1..Len(keys) : keys[i].id = id

OrderOf(keys, id) == keys[CHOOSE i \in 1..Len(keys) : keys[i].id = id].order

Without(keys, id) == SelectSeq(keys, LAMBDA k : k.id # id)

\* C1: after any sequence of toggleId / clearId calls on a store created with
\* pairwise distinct ids, no two keys of the sequence have the same id.
C1_KeyUniqueness == UniqueIds(sortKeys)

C1_Witness ==
    /\ lastOp.op = "toggleId"
    /\ lastOp.multiSort
    /\ HasId(prevKeys, lastOp.id)
    /\ Len(sortKeys) >= 2

\* C2: toggleId(id, {multiSort: true}) appends {id, asc} when id is absent,
\* flips an asc key to desc at the same index, removes a desc key; every
\* other key keeps its id, order and relative position.
C2_MultiToggle ==
    (lastOp.op = "toggleId" /\ lastOp.multiSort) =>
        LET id == lastOp.id IN
        IF ~HasId(prevKeys, id)
        THEN sortKeys = prevKeys \o <<[id |-> id, order |-> "asc"]>>
        ELSE IF OrderOf(prevKeys, id) = "asc"
        THEN /\ Len(sortKeys) = Len(prevKeys)
             /\ \A i \in 1..Len(prevKeys) :
                   sortKeys[i] = IF prevKeys[i].id = id
                                 THEN [id |-> id, order |-> "desc"]
                                 ELSE prevKeys[i]
        ELSE sortKeys = Without(prevKeys, id)

C2_Witness ==
    /\ lastOp.op = "toggleId"
    /\ lastOp.multiSort
    /\ Len(prevKeys) = 3
    /\ prevKeys[2].id = lastOp.id
    /\ prevKeys[2].order = "asc"
    /\ sortKeys[2].order = "desc"

\* C3: toggleId(id, {multiSort: false}) yields exactly [{id, asc}] when id
\* is absent, [{id, desc}] when it is present with asc, [] when it is
\* present with desc; at most one key remains.
C3_SingleToggle ==
    (lastOp.op = "toggleId" /\ ~lastOp.multiSort) =>
        LET id == lastOp.id IN
        /\ Len(sortKeys) <= 1
        /\ IF ~HasId(prevKeys, id)
           THEN sortKeys = <<[id |-> id, order |-> "asc"]>>
           ELSE IF OrderOf(prevKeys, id) = "asc"
           THEN sortKeys = <<[id |-> id, order |-> "desc"]>>
           ELSE sortKeys = <<>>

C3_Witness ==
    /\ lastOp.op = "toggleId"
    /\ ~lastOp.multiSort
    /\ Len(prevKeys) = 3
    /\ prevKeys[2].id = lastOp.id
    /\ prevKeys[2].order = "asc"
    /\ Len(sortKeys) = 1

\* C4: three consecutive toggles of an initially absent id in one mode take
\* the column through asc, desc, absent; in multi-sort mode the sequence
\* after the third toggle equals the sequence before the first.
C4_ThreeStateCycle ==
    /\ cycN = 1 => (HasId(sortKeys, cycId) /\ OrderOf(sortKeys, cycId) = "asc")
    /\ cycN = 2 => (HasId(sortKeys, cycId) /\ OrderOf(sortKeys, cycId) = "desc")
    /\ cycN = 3 => ~HasId(sortKeys, cycId)
    /\ (cycN = 3 /\ cycMulti) => sortKeys = cycBase
    /\ (cycN = 3 /\ ~cycMulti) => sortKeys = <<>>

C4_Witness ==
    /\ cycN = 3
    /\ cycMulti
    /\ Len(cycBase) = 2
    /\ sortKeys = cycBase

\* C5: clearId(id) removes the key of id and leaves the other keys and
\* their relative order; with id absent the sequence is unchanged; a second
\* clearId(id) changes nothing.
C5_Clear ==
    lastOp.op = "clearId" =>
        /\ sortKeys = Without(prevKeys, lastOp.id)
        /\ ~HasId(prevKeys, lastOp.id) => sortKeys = prevKeys
        /\ ClearUpdater(sortKeys, lastOp.id) = sortKeys

C5_Witness ==
    /\ lastOp.op = "clearId"
    /\ Len(prevKeys) = 3
    /\ prevKeys[2].id = lastOp.id
    /\ Len(sortKeys) = 2

(***************************************************************************)
(* Properties of getSortedRows (specification SortSpec)                    *)
(***************************************************************************)
Done == result.called /\ ~result.threw

\* The levels of a forest: the forest itself and every subRows sequence.
RECURSIVE LevelsOf(_)
LevelsOf(level) ==
    {level} \cup UNION {LevelsOf(level[i].subRows) :
                           i \in {n \in 1..Len(level) : level[n].hasSubRows}}

HasCell(r, id) == id \in DOMAIN r.cellForId

IsDataCell(r, id) == HasCell(r, id) /\ r.cellForId[id].kind = "data"

IsComparableCell(r, id) ==
    IsDataCell(r, id) /\ r.cellForId[id].type \in {"string", "number"}

ValueOf(r, id) == r.cellForId[id].value

InvertOf(id) == id \in DOMAIN columnOptions /\ columnOptions[id].invert

NoGetSortValue(keys) ==
    \A k \in 1..Len(keys) :
        keys[k].id \in DOMAIN columnOptions =>
            columnOptions[keys[k].id].getSortValue = "undefined"

\* r1 comes before r2 by the key: ascending for asc, descending for desc,
\* the other way round when the column is inverted.
Precedes(r1, r2, key) ==
    IF (key.order = "desc") = InvertOf(key.id)
    THEN ValueOf(r1, key.id) < ValueOf(r2, key.id)
    ELSE ValueOf(r1, key.id) > ValueOf(r2, key.id)

\* The keys whose cells in both rows are data cells with comparable values.
SignalKeys(r1, r2, keys) ==
    SelectSeq(keys, LAMBDA key : IsComparableCell(r1, key.id) /\ IsComparableCell(r2, key.id))

\* The first key of the sequence on which the two rows' values differ; 0 if none.
FirstDiff(r1, r2, keys) ==
    LET D == {k \in 1..Len(keys) : ValueOf(r1, keys[k].id) # ValueOf(r2, keys[k].id)} IN
    IF D = {} THEN 0 ELSE CHOOSE k \in D : \A m \in D : k <= m

\* Every two rows of the level that differ on a key of the sequence are in
\* the order of the first such key.
OrderedBy(level, i, j, keys) ==
    LET k == FirstDiff(level[i], level[j], keys) IN
    k # 0 => Precedes(level[i], level[j], keys[k])

\* C6: at every level of the output, two rows whose cells for the keys are
\* data cells with string or number values are ordered by the first key on
\* which their values differ, ascending for asc, descending for desc,
\* reversed when the column's invert is true.
C6_MultiKeyOrdering ==
    (Done /\ NoGetSortValue(sortKeys)) =>
        \A level \in LevelsOf(result.rows) :
            \A i, j \in 1..Len(level) :
                (/\ i < j
                 /\ \A k \in 1..Len(sortKeys) :
                        /\ IsComparableCell(level[i], sortKeys[k].id)
                        /\ IsComparableCell(level[j], sortKeys[k].id))
                    => OrderedBy(level, i, j, sortKeys)

RowIds(level) == [i \in 1..Len(level) |-> level[i].id]

\* rows (b=2,a=2), (b=1,a=2), (b=1,a=1) with keys [a desc, b asc].
C6_Witness ==
    /\ Done
    /\ sortKeys = <<[id |-> "a", order |-> "desc"], [id |-> "b", order |-> "asc"]>>
    /\ \A c \in ColumnIds : columnOptions[c] = DefaultOptions
    /\ Len(rows) = 3
    /\ <<ValueOf(rows[1], "b"), ValueOf(rows[1], "a")>> = <<2, 2>>
    /\ <<ValueOf(rows[2], "b"), ValueOf(rows[2], "a")>> = <<1, 2>>
    /\ <<ValueOf(rows[3], "b"), ValueOf(rows[3], "a")>> = <<1, 1>>
    /\ RowIds(result.rows) = << <<2>>, <<1>>, <<3>> >>

\* C7: a key whose cell is not a data cell gives no ordering decision and
\* the comparator goes on to the next key: a later key on which the rows
\* differ still decides their order.
C7_NonDataCellSkipped ==
    (/\ Done
     /\ NoGetSortValue(sortKeys)
     /\ \E k \in 1..Len(sortKeys) : sortKeys[k].id \in DisplayColumnIds) =>
        \A level \in LevelsOf(result.rows) :
            \A i, j \in 1..Len(level) :
                i < j => OrderedBy(level, i, j, SignalKeys(level[i], level[j], sortKeys))

\* C8: with a key whose id has no cell in the rows, getSortedRows on a level
\* of two rows or more returns without raising and orders the rows by the
\* remaining keys.
C8_UnknownColumnNoError ==
    (/\ result.called
     /\ NoGetSortValue(sortKeys)
     /\ \E level \in LevelsOf(rows) :
            /\ Len(level) >= 2
            /\ \E k \in 1..Len(sortKeys) : ~HasCell(level[1], sortKeys[k].id)) =>
        /\ ~result.threw
        /\ \A level \in LevelsOf(result.rows) :
               \A i, j \in 1..Len(level) :
                   i < j => OrderedBy(level, i, j, SignalKeys(level[i], level[j], sortKeys))

HasRow(level, id) == \E p \in 1..Len(level) : level[p].id = id

Pos(level, id) == CHOOSE p \in 1..Len(level) : level[p].id = id

RowWithId(level, id) == level[Pos(level, id)]

\* Every key ties on the two rows: it gives no signal or the values are equal.
Ties(r1, r2, keys) ==
    \A k \in 1..Len(keys) :
        \/ ~IsComparableCell(r1, keys[k].id)
        \/ ~IsComparableCell(r2, keys[k].id)
        \/ ValueOf(r1, keys[k].id) = ValueOf(r2, keys[k].id)

\* Rows that tie keep their input order, at this level and below.
RECURSIVE StableAt(_, _, _)
StableAt(in, out, keys) ==
    /\ \A i \in 1..Len(in) : HasRow(out, in[i].id)
    /\ \A i, j \in 1..Len(in) :
           (i < j /\ Ties(in[i], in[j], keys)) => Pos(out, in[i].id) < Pos(out, in[j].id)
    /\ \A i \in 1..Len(in) :
           in[i].hasSubRows => StableAt(in[i].subRows, RowWithId(out, in[i].id).subRows, keys)

\* C9: sibling rows on which every key ties are in the output in their input
\* order, at every level; with no keys the output is the input.
C9_Stability ==
    Done =>
        /\ StableAt(rows, result.rows, sortKeys)
        /\ sortKeys = <<>> => result.rows = rows

\* rows a=2, a=2, a=1 with keys [a asc]: the third row moves to the front.
C9_Witness ==
    /\ Done
    /\ Len(sortKeys) = 1
    /\ sortKeys[1].id = "a"
    /\ Len(rows) = 3
    /\ Ties(rows[1], rows[2], sortKeys)
    /\ ~Ties(rows[1], rows[3], sortKeys)
    /\ RowIds(result.rows) = << <<3>>, <<1>>, <<2>> >>

SameRow(r1, r2) ==
    /\ r1.id = r2.id
    /\ r1.cellForId = r2.cellForId
    /\ r1.hasSubRows = r2.hasSubRows

IsPermutation(in, out) ==
    /\ Len(in) = Len(out)
    /\ \A i \in 1..Len(in) : \E j \in 1..Len(out) : SameRow(in[i], out[j])
    /\ \A j \in 1..Len(out) : \E i \in 1..Len(in) : SameRow(in[i], out[j])

RECURSIVE StructureKept(_, _, _)
StructureKept(in, out, keys) ==
    /\ IsPermutation(in, out)
    /\ \A i \in 1..Len(in) :
           LET o == RowWithId(out, in[i].id) IN
           IF in[i].hasSubRows
           THEN /\ o.subRows = getSortedRows(in[i].subRows, keys, columnOptions).rows
                /\ StructureKept(in[i].subRows, o.subRows, keys)
           ELSE o.subRows = <<>>

\* C10: the output is at every level a permutation of the input rows of
\* that level; a row with subRows has as subRows getSortedRows of its input
\* subRows, wherever the row went; a row without subRows has none.
C10_StructurePreserved == Done => StructureKept(rows, result.rows, sortKeys)

\* The parent row moves to the second place and its two sub-rows swap.
C10_Witness ==
    /\ Done
    /\ Len(rows) = 2
    /\ rows[1].hasSubRows
    /\ Len(rows[1].subRows) = 2
    /\ result.rows[2].id = <<1>>
    /\ RowIds(result.rows[2].subRows) = << <<1, 2>>, <<1, 1>> >>

FlipOrder(order) == IF order = "asc" THEN "desc" ELSE "asc"

\* The key sequence with the order of its k-th key flipped.
FlipKey(keys, k) == [keys EXCEPT ![k].order = FlipOrder(keys[k].order)]

\* The column options with the invert option of column id set to inv.
WithInvert(options, id, inv) ==
    [c \in DOMAIN options \cup {id} |->
        IF c # id THEN options[c]
        ELSE [(IF c \in DOMAIN options THEN options[c] ELSE DefaultOptions)
                 EXCEPT !.invert = inv]]

\* C12: sorting by a key {id, asc} with the column's invert true gives the
\* output, at every level, of sorting by {id, desc} with invert false, and
\* the other way round; the call leaves the order stored in the key as it is.
C12_InvertOption ==
    result.called =>
        \A k \in 1..Len(sortKeys) :
            LET id == sortKeys[k].id IN
            getSortedRows(rows, FlipKey(sortKeys, k),
                          WithInvert(columnOptions, id, ~InvertOf(id)))
                = [threw |-> result.threw, rows |-> result.rows]

\* rows a=1, a=2 with keys [a asc] and column a inverted: the rows swap.
C12_Witness ==
    /\ Done
    /\ sortKeys = <<[id |-> "a", order |-> "asc"]>>
    /\ columnOptions["a"] = [DefaultOptions EXCEPT !.invert = TRUE]
    /\ Len(rows) = 2
    /\ ValueOf(rows[1], "a") = 1
    /\ ValueOf(rows[2], "a") = 2
    /\ RowIds(result.rows) = << <<2>>, <<1>> >>
    /\ sortKeys[1].order = "asc"

\* C13: sorting the output of getSortedRows again with the same keys and
\* options gives that output, at every level.
C13_Idempotence ==
    Done => getSortedRows(result.rows, sortKeys, columnOptions) = Returned(result.rows)

\* A call that moved rows and left two tying rows next to each other.
C13_Witness ==
    /\ Done
    /\ Len(sortKeys) = 2
    /\ Len(rows) = 3
    /\ RowIds(result.rows) = << <<2>>, <<3>>, <<1>> >>
    /\ Ties(result.rows[1], result.rows[2], sortKeys)
    /\ rows[3].hasSubRows

(***************************************************************************)
(* Properties of getSortedRows on unsupported values (TypedSpec)           *)
(***************************************************************************)
\* C17: with no getSortValue, a key whose data cells hold values that are
\* neither strings nor numbers raises no error and gives order 0 for every
\* pair: the rows are ordered by the first other key on which they differ,
\* also a later one, and rows tying on the other keys keep their input order.
C17_UnsupportedValueSkipped ==
    (/\ result.called
     /\ NoGetSortValue(sortKeys)
     /\ \E k \in 1..Len(sortKeys) : sortKeys[k].id \in ObjectColumnIds) =>
        /\ ~result.threw
        /\ \A i, j \in 1..Len(result.rows) :
               i < j => OrderedBy(result.rows, i, j,
                                  SignalKeys(result.rows[i], result.rows[j], sortKeys))
        /\ StableAt(rows, result.rows, sortKeys)

\* rows (o=[2], a=2), (o=[1], a=1), (o=[2], a=1) with keys [o asc, a asc]:
\* the later key a orders the rows, the key o moves none.
C17_Witness ==
    /\ Done
    /\ \A c \in DOMAIN columnOptions : columnOptions[c] = DefaultOptions
    /\ sortKeys = <<[id |-> "o", order |-> "asc"], [id |-> "a", order |-> "asc"]>>
    /\ Len(rows) = 3
    /\ <<ValueOf(rows[1], "o"), ValueOf(rows[1], "a")>> = <<2, 2>>
    /\ <<ValueOf(rows[2], "o"), ValueOf(rows[2], "a")>> = <<1, 1>>
    /\ <<ValueOf(rows[3], "o"), ValueOf(rows[3], "a")>> = <<2, 1>>
    /\ RowIds(result.rows) = << <<2>>, <<3>>, <<1>> >>

(***************************************************************************)
(* Properties of the cell hooks (specification HookSpec)                   *)
(***************************************************************************)
\* The sequence toggleId(id, {multiSort: multi}) makes of prev (distinct ids).
ExpectedToggle(prev, id, multi) ==
    IF ~HasId(prev, id)
    THEN IF multi THEN Append(prev, [id |-> id, order |-> "asc"])
         ELSE <<[id |-> id, order |-> "asc"]>>
    ELSE IF OrderOf(prev, id) = "asc"
    THEN IF multi
         THEN [i \in 1..Len(prev) |->
                  IF prev[i].id = id THEN [id |-> id, order |-> "desc"] ELSE prev[i]]
         ELSE <<[id |-> id, order |-> "desc"]>>
    ELSE IF multi THEN Without(prev, id) ELSE <<>>

IsDisabled(id) == id \in DOMAIN columnOptions /\ columnOptions[id].disable

IsDataHeader(id) == id \in DataColumnIds

\* C14: toggle(event) and clear() of the header cell of a column whose
\* option disable is true, or of a header cell that is not a data cell,
\* leave the sort-key sequence as it was, whatever the event, the sequence
\* and disableMultiSort.
C14_DisabledNotToggled ==
    (/\ lastOp.op \in {"toggle", "clear"}
     /\ (IsDisabled(lastOp.id) \/ ~IsDataHeader(lastOp.id))) =>
        sortKeys = prevKeys

\* clear() on the header of a disabled column that has a key.
C14_Witness ==
    /\ lastOp.op = "clear"
    /\ IsDisabled(lastOp.id)
    /\ IsDataHeader(lastOp.id)
    /\ Len(sortKeys) = 2
    /\ sortKeys[2].id = lastOp.id
    /\ sortKeys = prevKeys

\* C15: a header toggle on an enabled data column is toggleId in single-sort
\* mode when disableMultiSort is true, whatever the event, and otherwise in
\* the mode isMultiSortEvent(event) gives; with disableMultiSort true the
\* sequence holds at most one key once a header toggle on an enabled column
\* has happened, through any header toggles and clears.
C15_ModeSelection ==
    /\ (/\ lastOp.op = "toggle"
        /\ IsDataHeader(lastOp.id)
        /\ ~IsDisabled(lastOp.id)) =>
           sortKeys = ExpectedToggle(prevKeys, lastOp.id,
                                     ~disableMultiSort /\ lastOp.multiSort)
    /\ (disableMultiSort /\ toggled) => Len(sortKeys) <= 1

\* A shift-click on an enabled header with disableMultiSort true replaces
\* two keys of other columns by the column's key.
C15_Witness ==
    /\ disableMultiSort
    /\ lastOp.op = "toggle"
    /\ lastOp.multiSort
    /\ IsDataHeader(lastOp.id)
    /\ ~IsDisabled(lastOp.id)
    /\ Len(prevKeys) = 2
    /\ ~HasId(prevKeys, lastOp.id)
    /\ sortKeys = <<[id |-> lastOp.id, order |-> "asc"]>>

(***************************************************************************)
(* Properties of the plugin (specification PluginSpec)                     *)
(***************************************************************************)
CountId(keys, id) == Cardinality({i \in 1..Len(keys) : keys[i].id = id})

\* C16: the store never holds two keys of one id beyond the next toggleId or
\* clearId on that id: after toggleId(id) or clearId(id) the sequence, also
\* one installed through initialSortKeys, set or update, holds at most one
\* key of id.
C16_UniqueInEveryState ==
    lastOp.op \in {"toggleId", "clearId"} => CountId(sortKeys, lastOp.id) <= 1

\* C18: after every change of the rows or of the sort-key sequence the
\* derived rows store publishes getSortedRows(rows, sortKeys, columnOptions)
\* of the latest rows and keys, and preSortedRows holds the latest rows in
\* their order.
C18_RecomputeConsistency ==
    /\ getSortedRows(rows, sortKeys, columnOptions) = Returned(derivedRows)
    /\ preSortedRows = rows

\* C19: the order prop of the header cell and of the body cells of a column
\* is the order of a key of that column in the current sequence, and
\* undefined exactly when the sequence has no key of the column.
C19_OrderIndicator ==
    \A c \in ColumnIds :
        /\ props.th[c].order = props.td[c].order
        /\ IF HasId(sortKeys, c)
           THEN \E i \in 1..Len(sortKeys) :
                   /\ sortKeys[i].id = c
                   /\ props.th[c].order = sortKeys[i].order
           ELSE props.th[c].order = "undefined"

\* The column options with no column disabled.
AllEnabled(options) == [c \in DOMAIN options |-> [options[c] EXCEPT !.disable = FALSE]]

\* The rows getSortedRows returned are ordered by the keys of data columns,
\* disabled columns included, and are what it returns with no column disabled.
SortIgnoresDisable ==
    Done =>
        /\ \A level \in LevelsOf(result.rows) :
               \A i, j \in 1..Len(level) :
                   (/\ i < j
                    /\ \A k \in 1..Len(sortKeys) :
                           /\ IsComparableCell(level[i], sortKeys[k].id)
                           /\ IsComparableCell(level[j], sortKeys[k].id))
                       => OrderedBy(level, i, j, sortKeys)
        /\ getSortedRows(rows, sortKeys, AllEnabled(columnOptions)) = Returned(result.rows)

\* C20: toggleId and clearId called on pluginState.sortKeys for a column
\* whose option disable is true change the sequence as they do for any
\* column, and getSortedRows orders the rows by the key of a disabled column
\* as by any key: its output does not depend on disable.
C20_DisableOnlyAtHooks ==
    /\ (lastOp.op = "toggleId" /\ IsDisabled(lastOp.id) /\ UniqueIds(prevKeys)) =>
           sortKeys = ExpectedToggle(prevKeys, lastOp.id, lastOp.multiSort)
    /\ (lastOp.op = "clearId" /\ IsDisabled(lastOp.id)) =>
           /\ CountId(sortKeys, lastOp.id) = CountId(prevKeys, lastOp.id)
                 - (IF HasId(prevKeys, lastOp.id) THEN 1 ELSE 0)
           /\ UniqueIds(prevKeys) => sortKeys = Without(prevKeys, lastOp.id)
    /\ SortIgnoresDisable

\* toggleId on the store gave the disabled column "a" a desc key and the
\* derived rows are in descending order of a.
C20_Witness ==
    /\ lastOp = [op |-> "toggleId", id |-> "a", multiSort |-> TRUE]
    /\ IsDisabled("a")
    /\ sortKeys = <<[id |-> "b", order |-> "asc"], [id |-> "a", order |-> "desc"]>>
    /\ Len(rows) = 2
    /\ ValueOf(rows[1], "b") = ValueOf(rows[2], "b")
    /\ ValueOf(rows[1], "a") < ValueOf(rows[2], "a")
    /\ Done
    /\ RowIds(derivedRows) = << <<2>>, <<1>> >>

====
